---- MODULE Spec2Model ----
(***************************************************************************)
(* Model of the schema migration engine of txxasif/drive                   *)
(* (internal/database/migration/migration.go): the Migrator, its Registry  *)
(* (m.migrations), the migration record table and the schema, with one     *)
(* action per statement of Migrate() and Rollback(n) that can fail or      *)
(* that touches the store.                                                 *)
(***************************************************************************)
EXTENDS Integers, Sequences, FiniteSets, TLC

\* ---------------------------------------------------------------- bounds
MaxUnit == 2        \* migration ids are 1..MaxUnit; the id order is the lexical order
MaxReg == 2         \* longest Registry built with AddMigration
MaxClock == 2       \* largest applied_at the wall clock hands out
MaxN == 2           \* largest count passed to Rollback(n)
MaxNeg == 1         \* the counts that are not positive go down to -MaxNeg

Units == 1..MaxUnit
ProcIds == {1}

VARIABLES
    tableExists,    \* the record table exists in the store
    records,        \* rows of the record table: [id, applied_at]
    schema,         \* units whose forward change is committed in the schema
    now,            \* last wall-clock reading written to an applied_at
    applyOrder,     \* history: ids in the order their current record was committed
    skew,           \* history: the Registry was changed while records existed
    migrations,     \* m.migrations of each process' Migrator
    pc,             \* position of each process
    op,             \* the call in progress, or the last call finished
    arg,            \* n of Rollback(n)
    appliedMap,     \* Migrate: appliedMap
    idx,            \* loop index of Migrate / Rollback
    selected,       \* Rollback: ids of appliedMigrations, in query order
    tx,             \* the open transaction of each process
    err,            \* the value the last call returned
    log,            \* history: store operations of the call, in order
    start,          \* history: records, schema, order of application and Registry
                    \* when the call started, and the ids the call's query selected
    prev,           \* history: the Migrate() finished right before this call; when
                    \* this call is a Migrate() too, how that one ended and the
                    \* unit it failed at; the round trip the call is part of, and
                    \* then the Rollback(n) finished right before this Migrate()
    main            \* the executable that runs (cmd/migrate, or the server through
                    \* bootstrap.NewApp): its stage, command line and exit code

storeVars == <<tableExists, records, schema, now, applyOrder>>
vars == <<tableExists, records, schema, now, applyOrder, skew, migrations,
          pc, op, arg, appliedMap, idx, selected, tx, err, log, start, prev, main>>

\* ---------------------------------------------------------------- values
\* MigrationRecord{ID, AppliedAt}
MigrationRecord(id, at) == [id |-> id, applied_at |-> at]

\* the nil error, and an error with the unit id its message carries (0: none)
NoErr == [kind |-> "nil", id |-> 0]
Error(kind, id) == [kind |-> kind, id |-> id]

\* a transaction handle: the changes it holds until commit
NoTx == [open |-> FALSE, schemaAdd |-> {}, schemaDel |-> {}, ins |-> {}, del |-> {}]
Begin == [open |-> TRUE, schemaAdd |-> {}, schemaDel |-> {}, ins |-> {}, del |-> {}]

Ev(ev, id) == [ev |-> ev, id |-> id]
NoCall == [op |-> "none", ok |-> TRUE, unit |-> 0, trip |-> {}]
NoStart ==
    [records |-> {}, schema |-> {}, order |-> <<>>, registry |-> <<>>, selected |-> <<>>,
     table |-> FALSE]

\* flag.Int("n", 1, ...): the count when -n is not given
DefaultN == 1
\* os.Exit(0) and os.Exit(1)
ExitSuccess == 0
ExitFailure == 1

\* the command line after flag.Parse(): -rollback or not, -n <int> or not
Counts == 1..MaxN
Args == [rollback : BOOLEAN, n : {<<>>} \cup {<<k>> : k \in Counts}]
\* the counts outside the documented n >= 1, which flag.Int and Rollback accept
NonPositive == (0 - MaxNeg)..0
ArgsNonPositive == [rollback : BOOLEAN, n : {<<k>> : k \in NonPositive}]
RollbackN(args) == IF args.n = <<>> THEN DefaultN ELSE args.n[1]

\* the executable is not running and has left no exit code
MainOff == [stage |-> "off", args |-> [rollback |-> FALSE, n |-> <<>>], exit |-> {}]
Exited(m, stage, code) == [m EXCEPT !.stage = stage, !.exit = {code}]
NotInMain(p) ==
    main[p].stage \in {"off", "config_failed", "open_failed", "exited",
                       "app_failed", "serving"}

\* RegisterMigrations: the units of the application, in their order
RegisterMigrations == [k \in 1..MaxUnit |-> k]

Ids(recs) == {r.id : r \in recs}
Range(s) == {s[k] : k \in 1..Len(s)}
Min(a, b) == IF a < b THEN a ELSE b

\* the ids of ms in the lexical order of the ids
SortedById(ms) ==
    CHOOSE s \in [1..Len(ms) -> Range(ms)] :
        /\ \A u \in Range(ms) :
              Cardinality({k \in 1..Len(ms) : s[k] = u}) =
              Cardinality({k \in 1..Len(ms) : ms[k] = u})
        /\ \A a, b \in 1..Len(ms) : a < b => s[a] <= s[b]

\* mutant: the loop walks the units sorted by id
UnitAtLexical(ms, i) == SortedById(ms)[i]

\* ID() of the unit at position i of the Registry, as Migrate's range loop reads it
UnitAt(ms, i) == ms[i]

\* mutant: the applied records are forgotten
AppliedMapEmpty(recs) == {}

\* appliedMap: the ids of the records read
AppliedMapOf(recs) == Ids(recs)

\* migrationsMap of Rollback: the ids that have a unit in the Registry
MigrationsMap(ms) == Range(ms)

\* ---------------------------------------------------------------- the store
\* tx.Commit(): the schema after the transaction's changes
CommitSchema(s, t) == (s \cup t.schemaAdd) \ t.schemaDel

\* tx.Commit(): the record table after the transaction's changes
CommitRecords(recs, t) == {r \in recs : r.id \notin t.del} \cup t.ins

\* mutant: tx.Rollback() is not called, the transaction stays open
TxStaysOpen(t) == t

\* tx.Rollback(): the transaction's changes are dropped
TxRollback(t) == NoTx

\* the history of commits after a transaction
CommitOrder(ord, t) ==
    LET kept == SelectSeq(ord, LAMBDA u : u \notin t.del /\ u \notin Ids(t.ins))
        new == CHOOSE s \in [1..Cardinality(Ids(t.ins)) -> Ids(t.ins)] :
                   \A a, b \in DOMAIN s : a # b => s[a] # s[b]
    IN kept \o new

\* mutant: the record table has no primary key
CanInsertAlways(recs, id) == TRUE

\* tx.Create(&MigrationRecord{ID: id}): the primary key rejects a second row
CanInsert(recs, id) == id \notin Ids(recs)

\* .Limit(n): how many of total rows the query may return. A positive n is
\* sent as LIMIT n. A negative n is never sent: the query has no LIMIT clause
\* and returns every row. n = 0 is sent as LIMIT 0 or left out, as the
\* library version in the build has it.
Limit(n, total) ==
    IF n > 0 THEN {Min(n, total)}
    ELSE IF n = 0 THEN {0, total}
    ELSE {total}

\* db.Order("applied_at DESC").Limit(n).Find(...): every answer the store may
\* give; rows with equal applied_at come in any order
TopN(recs, n) ==
    UNION {{s \in [1..k -> recs] :
              /\ \A a, b \in 1..k : a < b => s[a] # s[b] /\ s[a].applied_at >= s[b].applied_at
              /\ \A r \in recs \ Range(s) : \A a \in 1..k : s[a].applied_at >= r.applied_at}
           : k \in Limit(n, Cardinality(recs))}

\* ---------------------------------------------------------------- Init
Init ==
    /\ tableExists = FALSE
    /\ records = {}
    /\ schema = {}
    /\ now = 1
    /\ applyOrder = <<>>
    /\ skew = FALSE
    /\ migrations = [p \in ProcIds |-> <<>>]
    /\ pc = [p \in ProcIds |-> "idle"]
    /\ op = [p \in ProcIds |-> "none"]
    /\ arg = [p \in ProcIds |-> 0]
    /\ appliedMap = [p \in ProcIds |-> {}]
    /\ idx = [p \in ProcIds |-> 0]
    /\ selected = [p \in ProcIds |-> <<>>]
    /\ tx = [p \in ProcIds |-> NoTx]
    /\ err = [p \in ProcIds |-> NoErr]
    /\ log = [p \in ProcIds |-> <<>>]
    /\ start = [p \in ProcIds |-> NoStart]
    /\ prev = [p \in ProcIds |-> NoCall]
    /\ main = [p \in ProcIds |-> MainOff]

\* ---------------------------------------------------------------- helpers of the actions
Set(f, p, v) == [f EXCEPT ![p] = v]

\* the call of process p returns e; its locals are gone
Return(p, e) ==
    /\ pc' = Set(pc, p, "idle")
    /\ err' = Set(err, p, e)
    /\ appliedMap' = Set(appliedMap, p, {})
    /\ idx' = Set(idx, p, 0)
    /\ selected' = Set(selected, p, <<>>)

Logged(p, evs) == log' = Set(log, p, log[p] \o evs)

\* the unit the last Migrate() was processing when it returned its error (0: none)
FailedUnit(p) ==
    IF op[p] = "migrate" /\ err[p] # NoErr /\ log[p] # <<>>
    THEN log[p][Len(log[p])].id ELSE 0

\* the call that returned right before the one that starts; a killed process
\* returned none
LastCall(p) ==
    IF op[p] \in {"migrate", "rollback"}
    THEN [op |-> op[p], ok |-> err[p] = NoErr, unit |-> FailedUnit(p), trip |-> {}]
    ELSE NoCall

\* the round trip the starting call is part of: for a Rollback(n) that follows a
\* Migrate() that returned nil, the records and the schema that Migrate() left;
\* for a Migrate() that follows such a Rollback(n) that returned nil, the same
RoundTrip(p, name) ==
    IF name = "rollback" /\ op[p] = "migrate" /\ err[p] = NoErr
    THEN {[ids |-> Ids(records), schema |-> schema]}
    ELSE IF name = "migrate" /\ op[p] = "rollback" /\ err[p] = NoErr
         THEN prev[p].trip
         ELSE {}

\* a call starts: its locals are fresh
StartCall(p, name, n, first) ==
    /\ pc[p] = "idle"
    /\ pc' = Set(pc, p, first)
    /\ prev' = Set(prev, p,
                   IF op[p] = "migrate"
                   THEN IF name = "migrate" THEN LastCall(p)
                        ELSE [LastCall(p) EXCEPT !.ok = TRUE, !.unit = 0,
                                                 !.trip = RoundTrip(p, name)]
                   ELSE IF RoundTrip(p, name) # {}
                        THEN [LastCall(p) EXCEPT !.ok = TRUE, !.trip = RoundTrip(p, name)]
                        ELSE NoCall)
    /\ op' = Set(op, p, name)
    /\ arg' = Set(arg, p, n)
    /\ appliedMap' = Set(appliedMap, p, {})
    /\ idx' = Set(idx, p, 0)
    /\ selected' = Set(selected, p, <<>>)
    /\ err' = Set(err, p, NoErr)
    /\ log' = Set(log, p, <<>>)
    /\ start' = Set(start, p, [records |-> records, schema |-> schema,
                               order |-> applyOrder, registry |-> migrations[p],
                               selected |-> <<>>,
                               table |-> tableExists])
    /\ UNCHANGED <<storeVars, skew, migrations, tx>>

\* the Registry changes: what is known of the last call no longer describes it
RegistryChanged(p) ==
    /\ skew' = (skew \/ records # {})
    /\ op' = Set(op, p, "none")
    /\ err' = Set(err, p, NoErr)
    /\ log' = Set(log, p, <<>>)
    /\ prev' = Set(prev, p, NoCall)
    /\ start' = Set(start, p, NoStart)
    /\ UNCHANGED <<storeVars, pc, arg, appliedMap, idx, selected, tx>>

\* ---------------------------------------------------------------- the Registry
\* NewMigrator: a process starts with an empty Registry
NewMigrator(p) ==
    /\ pc[p] = "idle"
    /\ NotInMain(p)
    /\ main' = Set(main, p, MainOff)
    /\ migrations[p] # <<>>
    /\ migrations' = Set(migrations, p, <<>>)
    /\ RegistryChanged(p)

\* AddMigration: append, with no check of the id
AddMigration(p, u) ==
    /\ pc[p] = "idle"
    /\ NotInMain(p)
    /\ main' = Set(main, p, MainOff)
    /\ Len(migrations[p]) < MaxReg
    /\ migrations' = Set(migrations, p, Append(migrations[p], u))
    /\ RegistryChanged(p)

\* ---------------------------------------------------------------- Migrate()
MigrateCall(p) ==
    /\ NotInMain(p)
    /\ main' = Set(main, p, MainOff)
    /\ StartCall(p, "migrate", 0, "m_ensure")

\* mutant: the record table is created anew, empty
EnsureTableRecreates(p) ==
    /\ pc[p] = "m_ensure"
    /\ tableExists' = TRUE
    /\ records' = {}
    /\ pc' = Set(pc, p, "m_find")
    /\ UNCHANGED <<schema, now, applyOrder, skew, migrations, main, op, arg,
                   appliedMap, idx, selected, tx, err, log, start, prev>>

\* m.db.AutoMigrate(&MigrationRecord{})
EnsureTableOk(p) ==
    /\ pc[p] = "m_ensure"
    /\ tableExists' = TRUE
    /\ pc' = Set(pc, p, "m_find")
    /\ UNCHANGED <<records, schema, now, applyOrder, skew, migrations, main, op, arg,
                   appliedMap, idx, selected, tx, err, log, start, prev>>

EnsureTableFail(p) ==
    /\ pc[p] = "m_ensure"
    /\ Return(p, Error("automigrate", 0))
    /\ UNCHANGED <<storeVars, skew, migrations, main, op, arg,
                   tx, log, start, prev>>

\* m.db.Find(&appliedMigrations) and the appliedMap built from it
FindAppliedOk(p) ==
    /\ pc[p] = "m_find"
    /\ appliedMap' = Set(appliedMap, p, AppliedMapOf(records))
    /\ idx' = Set(idx, p, 1)
    /\ pc' = Set(pc, p, "m_loop")
    /\ UNCHANGED <<storeVars, skew, migrations, main, op, arg, selected, tx, err, log,
                   start, prev>>

FindAppliedFail(p) ==
    /\ pc[p] = "m_find"
    /\ Return(p, Error("find", 0))
    /\ UNCHANGED <<storeVars, skew, migrations, main, op, arg,
                   tx, log, start, prev>>

\* the range loop is over: return nil
MigrateDone(p) ==
    /\ pc[p] = "m_loop"
    /\ idx[p] > Len(migrations[p])
    /\ Return(p, NoErr)
    /\ UNCHANGED <<storeVars, skew, migrations, main, op, arg,
                   tx, log, start, prev>>

\* mutant: a unit found in appliedMap is run again
MigrateSkipReapplies(p) ==
    /\ pc[p] = "m_loop"
    /\ idx[p] <= Len(migrations[p])
    /\ UnitAt(migrations[p], idx[p]) \in appliedMap[p]
    /\ pc' = Set(pc, p, "m_begin")
    /\ UNCHANGED <<storeVars, skew, migrations, main, op, arg, appliedMap, idx, selected,
                   tx, err, log, start, prev>>

\* appliedMap[id]: the unit is skipped
MigrateSkip(p) ==
    /\ pc[p] = "m_loop"
    /\ idx[p] <= Len(migrations[p])
    /\ UnitAt(migrations[p], idx[p]) \in appliedMap[p]
    /\ idx' = Set(idx, p, idx[p] + 1)
    /\ UNCHANGED <<storeVars, skew, migrations, main, pc, op, arg, appliedMap, selected,
                   tx, err, log, start, prev>>

\* !appliedMap[id]: the unit is pending
MigratePending(p) ==
    /\ pc[p] = "m_loop"
    /\ idx[p] <= Len(migrations[p])
    /\ UnitAt(migrations[p], idx[p]) \notin appliedMap[p]
    /\ pc' = Set(pc, p, "m_begin")
    /\ UNCHANGED <<storeVars, skew, migrations, main, op, arg, appliedMap, idx, selected,
                   tx, err, log, start, prev>>

\* tx := m.db.Begin()
MigrateBeginOk(p) ==
    /\ pc[p] = "m_begin"
    /\ tx' = Set(tx, p, Begin)
    /\ Logged(p, <<Ev("begin", UnitAt(migrations[p], idx[p]))>>)
    /\ pc' = Set(pc, p, "m_forward")
    /\ UNCHANGED <<storeVars, skew, migrations, main, op, arg, appliedMap, idx, selected,
                   err, start, prev>>

\* mutant: tx.Error is not looked at and the unit is run
MigrateBeginFailIgnored(p) ==
    /\ pc[p] = "m_begin"
    /\ tx' = Set(tx, p, Begin)
    /\ Logged(p, <<Ev("begin_err", UnitAt(migrations[p], idx[p]))>>)
    /\ pc' = Set(pc, p, "m_forward")
    /\ UNCHANGED <<storeVars, skew, migrations, main, op, arg, appliedMap, idx, selected,
                   err, start, prev>>

MigrateBeginFail(p) ==
    /\ pc[p] = "m_begin"
    /\ Logged(p, <<Ev("begin_err", UnitAt(migrations[p], idx[p]))>>)
    /\ Return(p, Error("begin", 0))
    /\ UNCHANGED <<storeVars, skew, migrations, main, op, arg,
                   tx, start, prev>>

\* migration.Migrate(tx)
MigrateForwardOk(p) ==
    LET id == UnitAt(migrations[p], idx[p]) IN
    /\ pc[p] = "m_forward"
    /\ tx' = Set(tx, p, [tx[p] EXCEPT !.schemaAdd = @ \cup {id}])
    /\ Logged(p, <<Ev("forward", id)>>)
    /\ pc' = Set(pc, p, "m_create")
    /\ UNCHANGED <<storeVars, skew, migrations, main, op, arg, appliedMap, idx, selected,
                   err, start, prev>>

\* mutant: the failure is logged and the loop goes on to the next unit
MigrateForwardFailContinues(p) ==
    LET id == UnitAt(migrations[p], idx[p]) IN
    /\ pc[p] = "m_forward"
    /\ tx' = Set(tx, p, TxRollback(tx[p]))
    /\ Logged(p, <<Ev("forward_err", id), Ev("rollback", id)>>)
    /\ idx' = Set(idx, p, idx[p] + 1)
    /\ pc' = Set(pc, p, "m_loop")
    /\ UNCHANGED <<storeVars, skew, migrations, main, op, arg, appliedMap, selected, err,
                   start, prev>>

\* mutant: the forward failed and what it changed so far is committed
MigrateForwardFailCommits(p) ==
    LET id == UnitAt(migrations[p], idx[p]) IN
    /\ pc[p] = "m_forward"
    /\ schema' = schema \cup {id}
    /\ tx' = Set(tx, p, NoTx)
    /\ Logged(p, <<Ev("forward_err", id), Ev("rollback", id)>>)
    /\ Return(p, Error("forward", id))
    /\ UNCHANGED <<tableExists, records, now, applyOrder, skew, migrations, main, op, arg,
                   start, prev>>

\* mutant: a unit whose forward failed is tried a second time
MigrateForwardFailRetries(p) ==
    LET id == UnitAt(migrations[p], idx[p]) IN
    /\ pc[p] = "m_forward"
    /\ tx' = Set(tx, p, TxRollback(tx[p]))
    /\ Logged(p, <<Ev("forward_err", id), Ev("rollback", id)>>)
    /\ IF Ev("forward_err", id) \in Range(log[p])
       THEN Return(p, Error("forward", id))
       ELSE /\ pc' = Set(pc, p, "m_begin")
            /\ UNCHANGED <<err, appliedMap, idx, selected>>
    /\ UNCHANGED <<storeVars, skew, migrations, main, op, arg,
                   start, prev>>

MigrateForwardFail(p) ==
    LET id == UnitAt(migrations[p], idx[p]) IN
    /\ pc[p] = "m_forward"
    /\ tx' = Set(tx, p, TxRollback(tx[p]))
    /\ Logged(p, <<Ev("forward_err", id), Ev("rollback", id)>>)
    /\ Return(p, Error("forward", id))
    /\ UNCHANGED <<storeVars, skew, migrations, main, op, arg,
                   start, prev>>

\* tx.Create(&MigrationRecord{ID: id}); autoCreateTime reads the wall clock; the
\* INSERT waits while another open transaction holds an insert of the same key
MigrateCreateOk(p) ==
    LET id == UnitAt(migrations[p], idx[p]) IN
    /\ pc[p] = "m_create"
    /\ CanInsert(records, id)
    /\ \A q \in DOMAIN tx \ {p} : CanInsert(tx[q].ins, id)
    /\ \E t \in {now, now + 1} :
          /\ t <= MaxClock
          /\ now' = t
          /\ tx' = Set(tx, p, [tx[p] EXCEPT !.ins = @ \cup {MigrationRecord(id, t)}])
    /\ Logged(p, <<Ev("create", id)>>)
    /\ pc' = Set(pc, p, "m_commit")
    /\ UNCHANGED <<tableExists, records, schema, applyOrder, skew, migrations, main, op,
                   arg, appliedMap, idx, selected, err, start, prev>>

\* mutant: the insert failed and the transaction is committed, not rolled back
MigrateCreateFailCommits(p) ==
    LET id == UnitAt(migrations[p], idx[p]) IN
    /\ pc[p] = "m_create"
    /\ schema' = CommitSchema(schema, tx[p])
    /\ tx' = Set(tx, p, NoTx)
    /\ Logged(p, <<Ev("create_err", id), Ev("rollback", id)>>)
    /\ Return(p, Error("create", id))
    /\ UNCHANGED <<tableExists, records, now, applyOrder, skew, migrations, main, op, arg,
                   start, prev>>

MigrateCreateFail(p) ==
    LET id == UnitAt(migrations[p], idx[p]) IN
    /\ pc[p] = "m_create"
    /\ tx' = Set(tx, p, TxRollback(tx[p]))
    /\ Logged(p, <<Ev("create_err", id), Ev("rollback", id)>>)
    /\ Return(p, Error("create", id))
    /\ UNCHANGED <<storeVars, skew, migrations, main, op, arg,
                   start, prev>>

\* tx.Commit()
MigrateCommitOk(p) ==
    LET id == UnitAt(migrations[p], idx[p]) IN
    /\ pc[p] = "m_commit"
    /\ records' = CommitRecords(records, tx[p])
    /\ schema' = CommitSchema(schema, tx[p])
    /\ applyOrder' = CommitOrder(applyOrder, tx[p])
    /\ tx' = Set(tx, p, NoTx)
    /\ Logged(p, <<Ev("commit", id)>>)
    /\ idx' = Set(idx, p, idx[p] + 1)
    /\ pc' = Set(pc, p, "m_loop")
    /\ UNCHANGED <<tableExists, now, skew, migrations, main, op, arg, appliedMap, selected,
                   err, start, prev>>

\* mutant: the error of tx.Commit() is dropped and the loop goes on
MigrateCommitFailIgnored(p) ==
    LET id == UnitAt(migrations[p], idx[p]) IN
    /\ pc[p] = "m_commit"
    /\ tx' = Set(tx, p, NoTx)
    /\ Logged(p, <<Ev("commit_err", id)>>)
    /\ idx' = Set(idx, p, idx[p] + 1)
    /\ pc' = Set(pc, p, "m_loop")
    /\ UNCHANGED <<storeVars, skew, migrations, main, op, arg, appliedMap, selected, err,
                   start, prev>>

\* mutant: tx.Commit() returns an error and the transaction is committed all the same
MigrateCommitFailApplied(p) ==
    LET id == UnitAt(migrations[p], idx[p]) IN
    /\ pc[p] = "m_commit"
    /\ records' = CommitRecords(records, tx[p])
    /\ schema' = CommitSchema(schema, tx[p])
    /\ applyOrder' = CommitOrder(applyOrder, tx[p])
    /\ tx' = Set(tx, p, NoTx)
    /\ Logged(p, <<Ev("commit_err", id)>>)
    /\ Return(p, Error("commit", id))
    /\ UNCHANGED <<tableExists, now, skew, migrations, main, op, arg, start, prev>>

MigrateCommitFail(p) ==
    LET id == UnitAt(migrations[p], idx[p]) IN
    /\ pc[p] = "m_commit"
    /\ tx' = Set(tx, p, NoTx)
    /\ Logged(p, <<Ev("commit_err", id)>>)
    /\ Return(p, Error("commit", id))
    /\ UNCHANGED <<storeVars, skew, migrations, main, op, arg,
                   start, prev>>

\* ---------------------------------------------------------------- Rollback(n)
RollbackCall(p, n) ==
    /\ NotInMain(p)
    /\ main' = Set(main, p, MainOff)
    /\ StartCall(p, "rollback", n, "r_find")

\* mutant: reading the records creates the record table when it is missing
RollbackFindCreatesTable(p) ==
    /\ pc[p] = "r_find"
    /\ tableExists' = TRUE
    /\ \E s \in TopN(records, arg[p]) :
          /\ selected' = Set(selected, p, [k \in 1..Len(s) |-> s[k].id])
          /\ start' = Set(start, p, [start[p] EXCEPT
                                        !.selected = [k \in 1..Len(s) |-> s[k].id]])
    /\ idx' = Set(idx, p, 1)
    /\ pc' = Set(pc, p, "r_loop")
    /\ UNCHANGED <<records, schema, now, applyOrder, skew, migrations, main, op, arg,
                   appliedMap, tx, err, log, prev>>

\* m.db.Order("applied_at DESC").Limit(n).Find(&appliedMigrations)
RollbackFindOk(p) ==
    /\ pc[p] = "r_find"
    /\ tableExists
    /\ \E s \in TopN(records, arg[p]) :
          /\ selected' = Set(selected, p, [k \in 1..Len(s) |-> s[k].id])
          /\ start' = Set(start, p, [start[p] EXCEPT
                                        !.selected = [k \in 1..Len(s) |-> s[k].id]])
    /\ idx' = Set(idx, p, 1)
    /\ pc' = Set(pc, p, "r_loop")
    /\ UNCHANGED <<storeVars, skew, migrations, main, op, arg, appliedMap, tx, err, log,
                   prev>>

\* the query fails: the store is unreachable, or the record table is missing
RollbackFindFail(p) ==
    /\ pc[p] = "r_find"
    /\ Return(p, Error("find", 0))
    /\ UNCHANGED <<storeVars, skew, migrations, main, op, arg,
                   tx, log, start, prev>>

\* the range loop is over: return nil
RollbackDone(p) ==
    /\ pc[p] = "r_loop"
    /\ idx[p] > Len(selected[p])
    /\ Return(p, NoErr)
    /\ UNCHANGED <<storeVars, skew, migrations, main, op, arg,
                   tx, log, start, prev>>

\* mutant: a record with no unit in the Registry fails the rollback
RollbackSkipFails(p) ==
    /\ pc[p] = "r_loop"
    /\ idx[p] <= Len(selected[p])
    /\ selected[p][idx[p]] \notin MigrationsMap(migrations[p])
    /\ Logged(p, <<Ev("skip", selected[p][idx[p]])>>)
    /\ Return(p, Error("notfound", selected[p][idx[p]]))
    /\ UNCHANGED <<storeVars, skew, migrations, main, op, arg, tx, start, prev>>

\* mutant: a record with no unit in the Registry ends the loop (break)
RollbackSkipBreaks(p) ==
    /\ pc[p] = "r_loop"
    /\ idx[p] <= Len(selected[p])
    /\ selected[p][idx[p]] \notin MigrationsMap(migrations[p])
    /\ Logged(p, <<Ev("skip", selected[p][idx[p]])>>)
    /\ Return(p, NoErr)
    /\ UNCHANGED <<storeVars, skew, migrations, main, op, arg, tx, start, prev>>

\* !exists: warn and continue
RollbackSkip(p) ==
    /\ pc[p] = "r_loop"
    /\ idx[p] <= Len(selected[p])
    /\ selected[p][idx[p]] \notin MigrationsMap(migrations[p])
    /\ Logged(p, <<Ev("skip", selected[p][idx[p]])>>)
    /\ idx' = Set(idx, p, idx[p] + 1)
    /\ UNCHANGED <<storeVars, skew, migrations, main, pc, op, arg, appliedMap, selected,
                   tx, err, start, prev>>

\* exists: the unit is rolled back
RollbackFound(p) ==
    /\ pc[p] = "r_loop"
    /\ idx[p] <= Len(selected[p])
    /\ selected[p][idx[p]] \in MigrationsMap(migrations[p])
    /\ pc' = Set(pc, p, "r_begin")
    /\ UNCHANGED <<storeVars, skew, migrations, main, op, arg, appliedMap, idx, selected,
                   tx, err, log, start, prev>>

\* tx := m.db.Begin()
RollbackBeginOk(p) ==
    /\ pc[p] = "r_begin"
    /\ tx' = Set(tx, p, Begin)
    /\ Logged(p, <<Ev("begin", selected[p][idx[p]])>>)
    /\ pc' = Set(pc, p, "r_backward")
    /\ UNCHANGED <<storeVars, skew, migrations, main, op, arg, appliedMap, idx, selected,
                   err, start, prev>>

RollbackBeginFail(p) ==
    /\ pc[p] = "r_begin"
    /\ Logged(p, <<Ev("begin_err", selected[p][idx[p]])>>)
    /\ Return(p, Error("begin", 0))
    /\ UNCHANGED <<storeVars, skew, migrations, main, op, arg,
                   tx, start, prev>>

\* migration.Rollback(tx)
RollbackBackwardOk(p) ==
    LET id == selected[p][idx[p]] IN
    /\ pc[p] = "r_backward"
    /\ tx' = Set(tx, p, [tx[p] EXCEPT !.schemaDel = @ \cup {id}])
    /\ Logged(p, <<Ev("backward", id)>>)
    /\ pc' = Set(pc, p, "r_delete")
    /\ UNCHANGED <<storeVars, skew, migrations, main, op, arg, appliedMap, idx, selected,
                   err, start, prev>>

\* mutant: the failure is logged and the loop goes on to the next record
RollbackBackwardFailContinues(p) ==
    LET id == selected[p][idx[p]] IN
    /\ pc[p] = "r_backward"
    /\ tx' = Set(tx, p, TxRollback(tx[p]))
    /\ Logged(p, <<Ev("backward_err", id), Ev("rollback", id)>>)
    /\ idx' = Set(idx, p, idx[p] + 1)
    /\ pc' = Set(pc, p, "r_loop")
    /\ UNCHANGED <<storeVars, skew, migrations, main, op, arg, appliedMap, selected, err,
                   start, prev>>

RollbackBackwardFail(p) ==
    LET id == selected[p][idx[p]] IN
    /\ pc[p] = "r_backward"
    /\ tx' = Set(tx, p, TxRollback(tx[p]))
    /\ Logged(p, <<Ev("backward_err", id), Ev("rollback", id)>>)
    /\ Return(p, Error("backward", id))
    /\ UNCHANGED <<storeVars, skew, migrations, main, op, arg,
                   start, prev>>

\* mutant: the delete matches no row and the record stays
RollbackDeleteMatchesNoRow(p) ==
    LET id == selected[p][idx[p]] IN
    /\ pc[p] = "r_delete"
    /\ Logged(p, <<Ev("delete", id)>>)
    /\ pc' = Set(pc, p, "r_commit")
    /\ UNCHANGED <<storeVars, skew, migrations, main, op, arg, appliedMap, idx, selected,
                   tx, err, start, prev>>

\* tx.Delete(&MigrationRecord{ID: record.ID})
RollbackDeleteOk(p) ==
    LET id == selected[p][idx[p]] IN
    /\ pc[p] = "r_delete"
    /\ tx' = Set(tx, p, [tx[p] EXCEPT !.del = @ \cup {id}])
    /\ Logged(p, <<Ev("delete", id)>>)
    /\ pc' = Set(pc, p, "r_commit")
    /\ UNCHANGED <<storeVars, skew, migrations, main, op, arg, appliedMap, idx, selected,
                   err, start, prev>>

\* mutant: the delete failed and the transaction is committed, not rolled back
RollbackDeleteFailCommits(p) ==
    LET id == selected[p][idx[p]] IN
    /\ pc[p] = "r_delete"
    /\ schema' = CommitSchema(schema, tx[p])
    /\ tx' = Set(tx, p, NoTx)
    /\ Logged(p, <<Ev("delete_err", id), Ev("rollback", id)>>)
    /\ Return(p, Error("delete", id))
    /\ UNCHANGED <<tableExists, records, now, applyOrder, skew, migrations, main, op, arg,
                   start, prev>>

RollbackDeleteFail(p) ==
    LET id == selected[p][idx[p]] IN
    /\ pc[p] = "r_delete"
    /\ tx' = Set(tx, p, TxRollback(tx[p]))
    /\ Logged(p, <<Ev("delete_err", id), Ev("rollback", id)>>)
    /\ Return(p, Error("delete", id))
    /\ UNCHANGED <<storeVars, skew, migrations, main, op, arg,
                   start, prev>>

\* tx.Commit()
RollbackCommitOk(p) ==
    LET id == selected[p][idx[p]] IN
    /\ pc[p] = "r_commit"
    /\ records' = CommitRecords(records, tx[p])
    /\ schema' = CommitSchema(schema, tx[p])
    /\ applyOrder' = CommitOrder(applyOrder, tx[p])
    /\ tx' = Set(tx, p, NoTx)
    /\ Logged(p, <<Ev("commit", id)>>)
    /\ idx' = Set(idx, p, idx[p] + 1)
    /\ pc' = Set(pc, p, "r_loop")
    /\ UNCHANGED <<tableExists, now, skew, migrations, main, op, arg, appliedMap, selected,
                   err, start, prev>>

\* mutant: the error of tx.Commit() is dropped and the loop goes on
RollbackCommitFailIgnored(p) ==
    LET id == selected[p][idx[p]] IN
    /\ pc[p] = "r_commit"
    /\ tx' = Set(tx, p, NoTx)
    /\ Logged(p, <<Ev("commit_err", id)>>)
    /\ idx' = Set(idx, p, idx[p] + 1)
    /\ pc' = Set(pc, p, "r_loop")
    /\ UNCHANGED <<storeVars, skew, migrations, main, op, arg, appliedMap, selected, err,
                   start, prev>>

RollbackCommitFail(p) ==
    LET id == selected[p][idx[p]] IN
    /\ pc[p] = "r_commit"
    /\ tx' = Set(tx, p, NoTx)
    /\ Logged(p, <<Ev("commit_err", id)>>)
    /\ Return(p, Error("commit", id))
    /\ UNCHANGED <<storeVars, skew, migrations, main, op, arg,
                   start, prev>>

\* ---------------------------------------------------------------- abort
\* mutant: what the open transaction changed in the schema survives the abort
AbortKeepsSchema(p) ==
    /\ pc[p] # "idle"
    /\ schema' = CommitSchema(schema, tx[p])
    /\ tx' = Set(tx, p, NoTx)
    /\ op' = Set(op, p, IF op[p] = "migrate" THEN "migrate_aborted"
                                               ELSE "rollback_aborted")
    /\ Return(p, NoErr)
    /\ main' = Set(main, p, MainOff)
    /\ arg' = Set(arg, p, 0)
    /\ prev' = Set(prev, p, NoCall)
    /\ UNCHANGED <<tableExists, records, now, applyOrder, skew, migrations, log, start>>

\* the run is cut at any statement (process killed, connection cancelled): there
\* is no tx.Commit(), and the store drops what the open transaction holds
Abort(p) ==
    /\ pc[p] # "idle"
    /\ tx' = Set(tx, p, NoTx)
    /\ op' = Set(op, p, IF op[p] = "migrate" THEN "migrate_aborted"
                                               ELSE "rollback_aborted")
    /\ Return(p, NoErr)
    /\ main' = Set(main, p, MainOff)
    /\ arg' = Set(arg, p, 0)
    /\ prev' = Set(prev, p, NoCall)
    /\ UNCHANGED <<storeVars, skew, migrations, log, start>>

\* ---------------------------------------------------------------- cmd/migrate
\* main starts: the process has made no call yet
MainStart(p) ==
    /\ pc[p] = "idle"
    /\ NotInMain(p)
    /\ main' = Set(main, p, [MainOff EXCEPT !.stage = "config"])
    /\ op' = Set(op, p, "none")
    /\ arg' = Set(arg, p, 0)
    /\ err' = Set(err, p, NoErr)
    /\ log' = Set(log, p, <<>>)
    /\ prev' = Set(prev, p, NoCall)
    /\ start' = Set(start, p, NoStart)
    /\ UNCHANGED <<storeVars, skew, migrations, pc, appliedMap, idx, selected, tx>>

\* config.Load()
MainConfigOk(p) ==
    /\ main[p].stage = "config"
    /\ main' = Set(main, p, [main[p] EXCEPT !.stage = "open"])
    /\ UNCHANGED <<storeVars, skew, migrations, pc, op, arg, appliedMap, idx, selected,
                   tx, err, log, start, prev>>

MainConfigFail(p) ==
    /\ main[p].stage = "config"
    /\ main' = Set(main, p, Exited(main[p], "config_failed", ExitFailure))
    /\ UNCHANGED <<storeVars, skew, migrations, pc, op, arg, appliedMap, idx, selected,
                   tx, err, log, start, prev>>

\* gorm.Open succeeds; RegisterMigrations builds the Registry; the flags of the
\* command line a, read here for the first time, pick the one operation that
\* is called
MainOpenOk(p, a) ==
    /\ main[p].stage = "open"
    /\ main' = Set(main, p, [main[p] EXCEPT !.stage = "run", !.args = a])
    /\ migrations' = Set(migrations, p, RegisterMigrations)
    /\ skew' = (skew \/ (records # {} /\ migrations[p] # RegisterMigrations))
    /\ pc' = Set(pc, p, IF a.rollback THEN "r_find" ELSE "m_ensure")
    /\ op' = Set(op, p, IF a.rollback THEN "rollback" ELSE "migrate")
    /\ arg' = Set(arg, p, IF a.rollback THEN RollbackN(a) ELSE 0)
    /\ start' = Set(start, p, [records |-> records, schema |-> schema,
                               order |-> applyOrder, registry |-> RegisterMigrations,
                               selected |-> <<>>,
                               table |-> tableExists])
    /\ UNCHANGED <<storeVars, appliedMap, idx, selected, tx, err, log, prev>>

MainOpenFail(p) ==
    /\ main[p].stage = "open"
    /\ main' = Set(main, p, Exited(main[p], "open_failed", ExitFailure))
    /\ UNCHANGED <<storeVars, skew, migrations, pc, op, arg, appliedMap, idx, selected,
                   tx, err, log, start, prev>>

\* mutant: the process exits 0 whatever the operation returned
MainExitAlwaysSuccess(p) ==
    /\ main[p].stage = "run"
    /\ pc[p] = "idle"
    /\ main' = Set(main, p, Exited(main[p], "exited", ExitSuccess))
    /\ UNCHANGED <<storeVars, skew, migrations, pc, op, arg, appliedMap, idx, selected,
                   tx, err, log, start, prev>>

\* the operation returned: os.Exit(1) on an error, os.Exit(0) otherwise
MainExit(p) ==
    /\ main[p].stage = "run"
    /\ pc[p] = "idle"
    /\ main' = Set(main, p, Exited(main[p], "exited",
                                   IF err[p] # NoErr THEN ExitFailure ELSE ExitSuccess))
    /\ UNCHANGED <<storeVars, skew, migrations, pc, op, arg, appliedMap, idx, selected,
                   tx, err, log, start, prev>>

\* ---------------------------------------------------------------- bootstrap
\* NewApp(cfg) is called: the process has made no call yet
NewApp(p) ==
    /\ pc[p] = "idle"
    /\ NotInMain(p)
    /\ main' = Set(main, p, [MainOff EXCEPT !.stage = "app_db"])
    /\ op' = Set(op, p, "none")
    /\ arg' = Set(arg, p, 0)
    /\ err' = Set(err, p, NoErr)
    /\ log' = Set(log, p, <<>>)
    /\ prev' = Set(prev, p, NoCall)
    /\ start' = Set(start, p, NoStart)
    /\ UNCHANGED <<storeVars, skew, migrations, pc, appliedMap, idx, selected, tx>>

\* database.InitDatabase fails: NewApp returns (nil, error)
AppInitDatabaseFail(p) ==
    /\ main[p].stage = "app_db"
    /\ main' = Set(main, p, [main[p] EXCEPT !.stage = "app_failed"])
    /\ UNCHANGED <<storeVars, skew, migrations, pc, op, arg, appliedMap, idx, selected,
                   tx, err, log, start, prev>>

\* database.InitDatabase succeeds; database.RunMigrations builds the Registry
\* with RegisterMigrations and calls Migrate()
AppRunMigrations(p) ==
    /\ main[p].stage = "app_db"
    /\ main' = Set(main, p, [main[p] EXCEPT !.stage = "app_migrate"])
    /\ migrations' = Set(migrations, p, RegisterMigrations)
    /\ skew' = (skew \/ (records # {} /\ migrations[p] # RegisterMigrations))
    /\ pc' = Set(pc, p, "m_ensure")
    /\ op' = Set(op, p, "migrate")
    /\ start' = Set(start, p, [records |-> records, schema |-> schema,
                               order |-> applyOrder, registry |-> RegisterMigrations,
                               selected |-> <<>>,
                               table |-> tableExists])
    /\ UNCHANGED <<storeVars, arg, appliedMap, idx, selected, tx, err, log, prev>>

\* RunMigrations returned an error: NewApp returns (nil, error)
AppMigrationsFailed(p) ==
    /\ main[p].stage = "app_migrate"
    /\ pc[p] = "idle"
    /\ err[p] # NoErr
    /\ main' = Set(main, p, [main[p] EXCEPT !.stage = "app_failed"])
    /\ UNCHANGED <<storeVars, skew, migrations, pc, op, arg, appliedMap, idx, selected,
                   tx, err, log, start, prev>>

\* mutant: the error of RunMigrations is logged and the App is built all the same
AppBuiltWhateverMigrate(p) ==
    /\ main[p].stage = "app_migrate"
    /\ pc[p] = "idle"
    /\ main' = Set(main, p, [main[p] EXCEPT !.stage = "app_built"])
    /\ UNCHANGED <<storeVars, skew, migrations, pc, op, arg, appliedMap, idx, selected,
                   tx, err, log, start, prev>>

\* RunMigrations returned nil: repositories, services, handler and routes are
\* built and NewApp returns the App
AppBuilt(p) ==
    /\ main[p].stage = "app_migrate"
    /\ pc[p] = "idle"
    /\ err[p] = NoErr
    /\ main' = Set(main, p, [main[p] EXCEPT !.stage = "app_built"])
    /\ UNCHANGED <<storeVars, skew, migrations, pc, op, arg, appliedMap, idx, selected,
                   tx, err, log, start, prev>>

\* the server's main got an App: srv.ListenAndServe() with app.Router
AppServe(p) ==
    /\ main[p].stage = "app_built"
    /\ main' = Set(main, p, [main[p] EXCEPT !.stage = "serving"])
    /\ UNCHANGED <<storeVars, skew, migrations, pc, op, arg, appliedMap, idx, selected,
                   tx, err, log, start, prev>>

\* ---------------------------------------------------------------- specification
Next ==
    \E p \in ProcIds :
        \/ NewMigrator(p)
        \/ \E u \in Units : AddMigration(p, u)
        \/ MigrateCall(p)
        \/ EnsureTableOk(p)
        \/ EnsureTableFail(p)
        \/ FindAppliedOk(p)
        \/ FindAppliedFail(p)
        \/ MigrateDone(p)
        \/ MigrateSkip(p)
        \/ MigratePending(p)
        \/ MigrateBeginOk(p)
        \/ MigrateBeginFail(p)
        \/ MigrateForwardOk(p)
        \/ MigrateForwardFail(p)
        \/ MigrateCreateOk(p)
        \/ MigrateCreateFail(p)
        \/ MigrateCommitOk(p)
        \/ MigrateCommitFail(p)
        \/ \E n \in Counts : RollbackCall(p, n)
        \/ RollbackFindOk(p)
        \/ RollbackFindFail(p)
        \/ RollbackDone(p)
        \/ RollbackSkip(p)
        \/ RollbackFound(p)
        \/ RollbackBeginOk(p)
        \/ RollbackBeginFail(p)
        \/ RollbackBackwardOk(p)
        \/ RollbackBackwardFail(p)
        \/ RollbackDeleteOk(p)
        \/ RollbackDeleteFail(p)
        \/ RollbackCommitOk(p)
        \/ RollbackCommitFail(p)
        \/ Abort(p)
        \/ MainStart(p)
        \/ MainConfigOk(p)
        \/ MainConfigFail(p)
        \/ \E a \in Args : MainOpenOk(p, a)
        \/ MainOpenFail(p)
        \/ MainExit(p)
        \/ NewApp(p)
        \/ AppInitDatabaseFail(p)
        \/ AppRunMigrations(p)
        \/ AppMigrationsFailed(p)
        \/ AppBuilt(p)
        \/ AppServe(p)

Spec == Init /\ [][Next]_vars

\* ---------------------------------------------------------------- concurrent Migrate()
\* two processes, each with its own Migrator over the Registry of
\* RegisterMigrations, run Migrate() against one store
ConcIds == {1, 2}

\* the store a run may find: any set of units applied, one after the other
AppliedStore(A) ==
    /\ tableExists \in {B \in BOOLEAN : A # {} => B}
    /\ records = {MigrationRecord(u, 1) : u \in A}
    /\ schema = A
    /\ now = 1
    /\ applyOrder = SortedById(SelectSeq(RegisterMigrations, LAMBDA u : u \in A))

InitConc ==
    /\ \E A \in SUBSET Units : AppliedStore(A)
    /\ skew = FALSE
    /\ migrations = [p \in ConcIds |-> RegisterMigrations]
    /\ pc = [p \in ConcIds |-> "idle"]
    /\ op = [p \in ConcIds |-> "none"]
    /\ arg = [p \in ConcIds |-> 0]
    /\ appliedMap = [p \in ConcIds |-> {}]
    /\ idx = [p \in ConcIds |-> 0]
    /\ selected = [p \in ConcIds |-> <<>>]
    /\ tx = [p \in ConcIds |-> NoTx]
    /\ err = [p \in ConcIds |-> NoErr]
    /\ log = [p \in ConcIds |-> <<>>]
    /\ start = [p \in ConcIds |-> NoStart]
    /\ prev = [p \in ConcIds |-> NoCall]
    /\ main = [p \in ConcIds |-> MainOff]

NextConc ==
    \E p \in ConcIds :
        \/ MigrateCall(p)
        \/ EnsureTableOk(p)
        \/ EnsureTableFail(p)
        \/ FindAppliedOk(p)
        \/ FindAppliedFail(p)
        \/ MigrateDone(p)
        \/ MigrateSkip(p)
        \/ MigratePending(p)
        \/ MigrateBeginOk(p)
        \/ MigrateBeginFail(p)
        \/ MigrateForwardOk(p)
        \/ MigrateForwardFail(p)
        \/ MigrateCreateOk(p)
        \/ MigrateCreateFail(p)
        \/ MigrateCommitOk(p)
        \/ MigrateCommitFail(p)
        \/ Abort(p)

SpecConc == InitConc /\ [][NextConc]_vars

\* ---------------------------------------------------------------- what the claims speak of
\* the ids of the events of the call's log whose kind is in kinds, in order
LogIds(p, kinds) ==
    LET evs == SelectSeq(log[p], LAMBDA e : e.ev \in kinds)
    IN [k \in 1..Len(evs) |-> evs[k].id]

\* the units this call committed
Committed(p) == Range(LogIds(p, {"commit"}))

\* the units of ms with no record in recs, in registration order
PendingOf(ms, recs) == SelectSeq(ms, LAMBDA u : u \notin Ids(recs))

Returned(p, name) == pc[p] = "idle" /\ op[p] = name

\* ---------------------------------------------------------------- C1
\* C1: in every reachable state, calls that failed part-way included, a unit has
\* a migration record if and only if its forward change is committed in the schema.
RecordSchemaConsistent == \A u \in Units : u \in Ids(records) <=> u \in schema

\* a Rollback(2) that undid one unit and failed on the next, a record remaining
RecordSchemaWitness ==
    \E p \in ProcIds :
        /\ Returned(p, "rollback")
        /\ err[p].kind \in {"backward", "delete"}
        /\ Committed(p) # {}
        /\ records # {}

\* ---------------------------------------------------------------- C2
\* C2: with a Registry that did not change since the store was fresh, the recorded
\* units are a prefix of the Registry in registration order.
IsPrefixOf(ms, ids) ==
    \E k \in 0..Len(ms) : ids \cap Range(ms) = {ms[i] : i \in 1..k}

PrefixClosed == ~skew => \A p \in ProcIds : IsPrefixOf(migrations[p], Ids(records))

\* ---------------------------------------------------------------- C3
\* C3 as amended: a Migrate() that directly follows a Migrate() that returned nil,
\* with the Registry unchanged, opens no transaction, invokes no forward and
\* leaves the record set and the schema as the first run left them.
SecondRunApplies(p) ==
    \/ log[p] # <<>>
    \/ tx[p].open
    \/ records # start[p].records
    \/ schema # start[p].schema

MigrateIdempotentAfterSuccess ==
    \A p \in ProcIds :
        (op[p] = "migrate" /\ prev[p].op = "migrate" /\ prev[p].ok)
            => ~SecondRunApplies(p)

\* C3 as stated: the same of every second run, whatever the first run returned
MigrateIdempotent ==
    \A p \in ProcIds :
        (op[p] = "migrate" /\ prev[p].op = "migrate") => ~SecondRunApplies(p)

\* a second run that returned nil over a Registry whose units are all recorded
MigrateIdempotentWitness ==
    \E p \in ProcIds :
        /\ Returned(p, "migrate") /\ err[p] = NoErr
        /\ prev[p].op = "migrate" /\ prev[p].ok
        /\ Len(migrations[p]) > 1
        /\ Range(migrations[p]) \subseteq Ids(records)

\* ---------------------------------------------------------------- C4
\* C4: Migrate() invokes the forward of the pending units in registration order,
\* whatever the order of their ids, and a unit's forward starts only after the
\* transaction of every unit forwarded before it in the call is committed.
ForwardKinds == {"forward", "forward_err"}

IsPrefixSeq(s, t) == Len(s) <= Len(t) /\ \A k \in 1..Len(s) : s[k] = t[k]

ForwardInRegistrationOrder ==
    \A p \in ProcIds : op[p] = "migrate" =>
        /\ IsPrefixSeq(LogIds(p, ForwardKinds),
                       PendingOf(migrations[p], start[p].records))
        /\ \A a, b \in 1..Len(log[p]) :
              (a < b /\ log[p][a].ev \in ForwardKinds /\ log[p][b].ev \in ForwardKinds)
                  => \E c \in (a + 1)..(b - 1) : log[p][c] = Ev("commit", log[p][a].id)

\* a call that forwarded two units registered against the order of their ids
ForwardOrderWitness ==
    \E p \in ProcIds :
        /\ Returned(p, "migrate")
        /\ Len(LogIds(p, ForwardKinds)) = 2
        /\ LogIds(p, ForwardKinds)[1] > LogIds(p, ForwardKinds)[2]

\* ---------------------------------------------------------------- C5
\* C5: when Migrate() returns the error of unit B's forward after it committed
\* other units, those units keep their records and schema changes, B has neither
\* a record nor a schema change, and nothing else changed.
PartialFailureAtomic ==
    \A p \in ProcIds :
        (Returned(p, "migrate") /\ err[p].kind = "forward") =>
            /\ Committed(p) \subseteq Ids(records) \cap schema
            /\ Ids(records) = Ids(start[p].records) \cup Committed(p)
            /\ schema = start[p].schema \cup Committed(p)
            /\ err[p].id \notin Committed(p) =>
                   err[p].id \notin Ids(records) \cup schema

\* unit A committed, then the forward of another unit B failed
PartialFailureWitness ==
    \E p \in ProcIds :
        /\ Returned(p, "migrate") /\ err[p].kind = "forward"
        /\ Committed(p) # {}
        /\ err[p].id \notin Committed(p)

\* ---------------------------------------------------------------- C6
\* C6: when the forward or the record insert of a unit fails, Migrate() rolls
\* that transaction back and returns the error at once: the failure and the
\* rollback are the last store operations of the call.
FailFastMigrate ==
    \A p \in ProcIds : op[p] = "migrate" =>
        \A a \in 1..Len(log[p]) : log[p][a].ev \in {"forward_err", "create_err"} =>
            /\ Len(log[p]) = a + 1
            /\ log[p][a + 1] = Ev("rollback", log[p][a].id)
            /\ pc[p] = "idle"
            /\ err[p].kind \in {"forward", "create"} /\ err[p].id = log[p][a].id
            /\ ~tx[p].open

\* a failure at a unit that has a pending unit registered after it
FailFastWitness ==
    \E p \in ProcIds :
        /\ Returned(p, "migrate") /\ err[p].kind \in {"forward", "create"}
        /\ \E k \in 1..(Len(migrations[p]) - 1) :
              /\ migrations[p][k] = err[p].id
              /\ migrations[p][k + 1] \notin Ids(records)
              /\ migrations[p][k + 1] # err[p].id

\* ---------------------------------------------------------------- C7
\* C7: when Migrate() returns nil, every unit of the Registry that had no record
\* when the call started was committed by the call, and every unit of the
\* Registry has a record.
MigrateSuccessComplete ==
    \A p \in ProcIds :
        (Returned(p, "migrate") /\ err[p] = NoErr) =>
            /\ Range(PendingOf(migrations[p], start[p].records)) \subseteq Committed(p)
            /\ Range(migrations[p]) \subseteq Ids(records)

\* a successful call that found two units pending
MigrateSuccessWitness ==
    \E p \in ProcIds :
        /\ Returned(p, "migrate") /\ err[p] = NoErr
        /\ Cardinality(Committed(p)) = 2

\* ---------------------------------------------------------------- C8
\* C8: with Registry [A, B] unchanged since the store was fresh and both units
\* recorded, a Rollback(1) that returns nil right after Migrate() undoes B alone
\* (B's record and schema change gone, A's kept), and a Rollback(1) that returns
\* nil right after that one, which finds A alone recorded, undoes A.
RollbackOneUndoesLast ==
    \A p \in ProcIds :
        LET ms == migrations[p] IN
        (/\ Returned(p, "rollback") /\ err[p] = NoErr /\ arg[p] = 1
         /\ ~skew /\ Len(ms) = 2 /\ ms[1] # ms[2]) =>
            /\ (prev[p].op = "migrate" /\ Ids(start[p].records) = {ms[1], ms[2]}) =>
                   /\ Ids(records) = {ms[1]}
                   /\ schema = {ms[1]}
                   /\ Committed(p) = {ms[2]}
            /\ Ids(start[p].records) = {ms[1]} =>
                   /\ records = {}
                   /\ schema = {}

\* ---------------------------------------------------------------- C9
\* C9: Rollback(n) processes the n most recently applied units, the most
\* recently applied first, whatever the order of their ids.
LastReversed(ord, k) == [i \in 1..k |-> ord[Len(ord) - i + 1]]

RollbackReverseApplied ==
    \A p \in ProcIds :
        (pc[p] = "r_loop" /\ idx[p] = 1 /\ arg[p] >= 1) =>
            selected[p] = LastReversed(applyOrder, Min(arg[p], Len(applyOrder)))

AppliedAt(recs, u) == (CHOOSE r \in recs : r.id = u).applied_at

KnownSelected(p) ==
    SelectSeq(start[p].selected, LAMBDA u : u \in MigrationsMap(migrations[p]))

RollbackFailureSemantics ==
    \A p \in ProcIds : op[p] = "rollback" =>
        \A a \in 1..Len(log[p]) : log[p][a].ev \in {"backward_err", "delete_err"} =>
            /\ Len(log[p]) = a + 1
            /\ log[p][a + 1] = Ev("rollback", log[p][a].id)
            /\ pc[p] = "idle"
            /\ err[p].kind \in {"backward", "delete"} /\ err[p].id = log[p][a].id
            /\ ~tx[p].open
            /\ log[p][a].id \in Ids(records) \cap schema
            /\ Ids(records) = Ids(start[p].records) \ Committed(p)
            /\ schema = start[p].schema \ Committed(p)

\* the first of two selected records failed: the older one was not attempted
RollbackFailureWitness ==
    \E p \in ProcIds :
        /\ Returned(p, "rollback") /\ err[p].kind \in {"backward", "delete"}
        /\ Len(start[p].selected) = 2
        /\ start[p].selected[1] = err[p].id
        /\ start[p].selected[2] \in MigrationsMap(migrations[p])

\* ---------------------------------------------------------------- C13
\* C13: when Rollback(n) returns nil, the query selected min(n, number of
\* records) records, none older by applied_at than a record left out, and every
\* selected record whose unit is in the Registry had its backward invoked and
\* committed and its record deleted.
RollbackSuccessComplete ==
    \A p \in ProcIds :
        (Returned(p, "rollback") /\ err[p] = NoErr /\ arg[p] >= 1) =>
            LET sel == start[p].selected
                recs == start[p].records IN
            /\ Len(sel) = Min(arg[p], Cardinality(recs))
            /\ Range(sel) \subseteq Ids(recs)
            /\ \A u \in Range(sel) : \A r \in recs :
                   r.id \notin Range(sel) => AppliedAt(recs, u) >= r.applied_at
            /\ \A u \in Range(KnownSelected(p)) :
                   /\ u \in Range(LogIds(p, {"backward"}))
                   /\ u \in Committed(p)
                   /\ u \notin Ids(records)
                   /\ u \notin schema

\* a successful Rollback(2) that undid two units
RollbackSuccessWitness ==
    \E p \in ProcIds :
        /\ Returned(p, "rollback") /\ err[p] = NoErr
        /\ Cardinality(Committed(p)) = 2

\* ---------------------------------------------------------------- C14
\* C14: when the insert of the record fails after the forward succeeded, or the
\* delete of the record fails after the backward succeeded, the transaction is
\* rolled back with the schema change in it: the store is as a failure of the
\* forward or backward itself leaves it, and schema and records never disagree.
LastEvents(p, k) == SubSeq(log[p], Len(log[p]) - k + 1, Len(log[p]))

BookkeepingFailureRollsBack ==
    /\ \A u \in Units : u \in schema <=> u \in Ids(records)
    /\ \A p \in ProcIds :
        /\ (Returned(p, "migrate") /\ err[p].kind = "create") =>
               /\ Len(log[p]) >= 4
               /\ LastEvents(p, 4) = <<Ev("begin", err[p].id), Ev("forward", err[p].id),
                                       Ev("create_err", err[p].id),
                                       Ev("rollback", err[p].id)>>
               /\ ~tx[p].open
               /\ Ids(records) = Ids(start[p].records) \cup Committed(p)
               /\ schema = start[p].schema \cup Committed(p)
        /\ (Returned(p, "rollback") /\ err[p].kind = "delete") =>
               /\ Len(log[p]) >= 4
               /\ LastEvents(p, 4) = <<Ev("begin", err[p].id), Ev("backward", err[p].id),
                                       Ev("delete_err", err[p].id),
                                       Ev("rollback", err[p].id)>>
               /\ ~tx[p].open
               /\ Ids(records) = Ids(start[p].records) \ Committed(p)
               /\ schema = start[p].schema \ Committed(p)
               /\ err[p].id \in Ids(records) \cap schema

\* the delete of a record failed after its unit's backward succeeded
BookkeepingFailureWitness ==
    \E p \in ProcIds :
        /\ Returned(p, "rollback") /\ err[p].kind = "delete"
        /\ Range(LogIds(p, {"backward"})) # {}

\* ---------------------------------------------------------------- C15
\* C15: a Migrate() or Rollback(n) cut at any statement leaves the store as the
\* last commit left it: the units the run committed keep their change, every
\* other record and schema change is as when the run started, and the unit whose
\* transaction was open has neither a record change nor a schema change.
OpenUnit(p) ==
    IF log[p] # <<>> /\ log[p][Len(log[p])].ev \in
           {"begin", "forward", "create", "backward", "delete"}
    THEN {log[p][Len(log[p])].id} ELSE {}

AbortSafe ==
    \A p \in ProcIds :
        /\ op[p] = "migrate_aborted" =>
               /\ ~tx[p].open
               /\ records \cap start[p].records = start[p].records
               /\ Ids(records) = Ids(start[p].records) \cup Committed(p)
               /\ schema = start[p].schema \cup Committed(p)
               /\ \A u \in OpenUnit(p) \ Committed(p) : u \notin Ids(records) \cup schema
        /\ op[p] = "rollback_aborted" =>
               /\ ~tx[p].open
               /\ records \subseteq start[p].records
               /\ Ids(records) = Ids(start[p].records) \ Committed(p)
               /\ schema = start[p].schema \ Committed(p)
               /\ \A u \in OpenUnit(p) : u \in Ids(records) \cap schema

\* a Migrate() cut between the insert of a record and the commit, after it
\* committed another unit
AbortWitness ==
    \E p \in ProcIds :
        /\ op[p] = "migrate_aborted"
        /\ Committed(p) # {}
        /\ log[p][Len(log[p])].ev = "create"
        /\ OpenUnit(p) \cap Committed(p) = {}

\* ---------------------------------------------------------------- C16
\* C16: in a Migrate() that directly follows a Migrate() that failed at unit K,
\* with the Registry unchanged, forward is invoked only for units without a
\* record, all of them K or registered after K, K first if it is pending; and
\* when no step of the new call fails (it returns nil) forward was invoked for
\* every pending unit and every unit of the Registry has a record.
FirstIndex(ms, u) == CHOOSE j \in 1..Len(ms) : ms[j] = u /\ \A i \in 1..(j - 1) : ms[i] # u

ReinvocationSafe ==
    \A p \in ProcIds :
        (/\ op[p] = "migrate" /\ prev[p].op = "migrate" /\ ~prev[p].ok
         /\ prev[p].unit # 0) =>
            LET K == prev[p].unit
                ms == migrations[p]
                F == LogIds(p, ForwardKinds) IN
            /\ K \in Range(ms)
            /\ \A k \in 1..Len(F) :
                   /\ F[k] \notin Ids(start[p].records)
                   /\ \E i \in FirstIndex(ms, K)..Len(ms) : ms[i] = F[k]
            /\ (K \notin Ids(start[p].records) /\ F # <<>>) => F[1] = K
            /\ (pc[p] = "idle" /\ err[p] = NoErr) =>
                   /\ F = PendingOf(ms, start[p].records)
                   /\ Range(ms) \subseteq Ids(records)

\* the first call committed a unit and failed at the next one, K; the new call
\* returned nil after invoking K's forward alone
ReinvocationWitness ==
    \E p \in ProcIds :
        /\ Returned(p, "migrate") /\ err[p] = NoErr
        /\ prev[p].op = "migrate" /\ ~prev[p].ok /\ prev[p].unit # 0
        /\ Len(migrations[p]) = 2
        /\ migrations[p][2] = prev[p].unit
        /\ migrations[p][1] # prev[p].unit
        /\ LogIds(p, ForwardKinds) = <<prev[p].unit>>

\* ---------------------------------------------------------------- C17
\* C17: every error a call returns while it processes a unit (begin, forward or
\* backward, record insert or delete, commit) carries that unit's migration id.
ErrorsAnnotated ==
    \A p \in ProcIds :
        (/\ pc[p] = "idle" /\ op[p] \in {"migrate", "rollback"}
         /\ err[p].kind \in {"begin", "forward", "create", "backward", "delete", "commit"}) =>
            err[p].id = log[p][Len(log[p])].id

\* ---------------------------------------------------------------- C19
\* C19: when the transaction of a unit cannot be begun, the call returns the
\* error at once: the failed Begin is its last store operation, the unit's
\* forward or backward is not invoked, its record is as before, and what the
\* call committed before stays committed.
StoreUnreachableAborts ==
    \A p \in ProcIds : op[p] \in {"migrate", "rollback"} =>
        \A a \in 1..Len(log[p]) : log[p][a].ev = "begin_err" =>
            LET u == log[p][a].id IN
            /\ Len(log[p]) = a
            /\ pc[p] = "idle"
            /\ err[p].kind = "begin"
            /\ ~tx[p].open
            /\ op[p] = "migrate" =>
                   /\ Ids(records) = Ids(start[p].records) \cup Committed(p)
                   /\ schema = start[p].schema \cup Committed(p)
                   /\ u \notin Committed(p) => u \notin Ids(records) \cup schema
            /\ op[p] = "rollback" =>
                   /\ Ids(records) = Ids(start[p].records) \ Committed(p)
                   /\ schema = start[p].schema \ Committed(p)
                   /\ u \in Ids(records) \cap schema

\* Begin failed for a unit after the call committed another one
StoreUnreachableWitness ==
    \E p \in ProcIds :
        /\ Returned(p, "migrate") /\ err[p].kind = "begin"
        /\ Committed(p) # {}
        /\ log[p][Len(log[p])].id \notin Committed(p)

\* ---------------------------------------------------------------- C20
\* C20: the store operations of a call are a sequence of transactions, one per
\* processed unit, each holding that unit's forward and record insert (or its
\* backward and record delete) and ended by commit or rollback before the next
\* begins; a transaction is open only between its Begin and its end, never when
\* the call has returned.
TxPcs == {"m_forward", "m_create", "m_commit", "r_backward", "r_delete", "r_commit"}

ClosedTx(o, u) ==
    IF o = "migrate"
    THEN {<<Ev("begin", u), Ev("forward", u), Ev("create", u), Ev("commit", u)>>,
          <<Ev("begin", u), Ev("forward", u), Ev("create", u), Ev("commit_err", u)>>,
          <<Ev("begin", u), Ev("forward", u), Ev("create_err", u), Ev("rollback", u)>>,
          <<Ev("begin", u), Ev("forward_err", u), Ev("rollback", u)>>}
    ELSE {<<Ev("begin", u), Ev("backward", u), Ev("delete", u), Ev("commit", u)>>,
          <<Ev("begin", u), Ev("backward", u), Ev("delete", u), Ev("commit_err", u)>>,
          <<Ev("begin", u), Ev("backward", u), Ev("delete_err", u), Ev("rollback", u)>>,
          <<Ev("begin", u), Ev("backward_err", u), Ev("rollback", u)>>}

OpenTx(o, u) ==
    IF o = "migrate"
    THEN {<<Ev("begin", u)>>, <<Ev("begin", u), Ev("forward", u)>>,
          <<Ev("begin", u), Ev("forward", u), Ev("create", u)>>}
    ELSE {<<Ev("begin", u)>>, <<Ev("begin", u), Ev("backward", u)>>,
          <<Ev("begin", u), Ev("backward", u), Ev("delete", u)>>}

RECURSIVE TxSequence(_, _, _)
TxSequence(l, o, open) ==
    IF l = <<>> THEN ~open
    ELSE \/ l[1].ev \in {"skip", "begin_err"} /\ TxSequence(Tail(l), o, open)
         \/ \E b \in ClosedTx(o, l[1].id) :
               /\ Len(b) <= Len(l)
               /\ SubSeq(l, 1, Len(b)) = b
               /\ TxSequence(SubSeq(l, Len(b) + 1, Len(l)), o, open)
         \/ open /\ l \in OpenTx(o, l[1].id)

OneTransactionPerUnit ==
    \A p \in ProcIds :
        /\ tx[p].open <=> pc[p] \in TxPcs
        /\ op[p] \in {"migrate", "rollback"} => TxSequence(log[p], op[p], tx[p].open)
        /\ op[p] = "migrate" =>
               IsPrefixSeq(LogIds(p, {"begin", "begin_err"}),
                           PendingOf(migrations[p], start[p].records))
        /\ op[p] = "rollback" =>
               IsPrefixSeq(LogIds(p, {"begin", "begin_err"}), KnownSelected(p))

\* a call returned after a committed transaction and a rolled back one
OneTransactionWitness ==
    \E p \in ProcIds :
        /\ pc[p] = "idle" /\ op[p] \in {"migrate", "rollback"}
        /\ Committed(p) # {}
        /\ log[p][Len(log[p])].ev = "rollback"

\* ---------------------------------------------------------------- C18
\* C18: the migrate executable without -rollback calls Migrate() and never
\* Rollback; with -rollback it calls Rollback(n), n being the value of -n or 1
\* when -n is absent, and never Migrate; its exit code is 0 if and only if the
\* called operation returned nil and 1 otherwise; when config.Load or gorm.Open
\* fails the exit code is 1 and neither operation has been called.
CliDispatchAndExit ==
    \A p \in ProcIds :
        LET m == main[p] IN
        /\ m.stage \in {"config", "open", "config_failed", "open_failed"} =>
               /\ op[p] = "none" /\ pc[p] = "idle" /\ log[p] = <<>>
        /\ m.stage \in {"run", "exited"} =>
               /\ op[p] = (IF m.args.rollback THEN "rollback" ELSE "migrate")
               /\ m.args.rollback =>
                      arg[p] = (IF m.args.n = <<>> THEN 1 ELSE m.args.n[1])
               /\ \A a \in 1..Len(log[p]) :
                      IF m.args.rollback
                      THEN log[p][a].ev \notin {"forward", "forward_err", "create",
                                                "create_err"}
                      ELSE log[p][a].ev \notin {"backward", "backward_err", "delete",
                                                "delete_err", "skip"}
        /\ m.stage \in {"config_failed", "open_failed"} => m.exit = {1}
        /\ m.stage = "exited" =>
               /\ pc[p] = "idle"
               /\ m.exit \in {{0}, {1}}
               /\ m.exit = {0} <=> err[p] = NoErr
        /\ m.stage \in {"off", "config", "open", "run"} => m.exit = {}

\* migrate -rollback -n 2 has exited 1 after undoing one unit and failing on the next
CliDispatchWitness ==
    \E p \in ProcIds :
        /\ main[p].stage = "exited"
        /\ main[p].args.rollback
        /\ main[p].args.n = <<2>>
        /\ main[p].exit = {1}
        /\ Committed(p) # {}

\* ---------------------------------------------------------------- C21
\* C21: NewApp calls Migrate() over the Registry of RegisterMigrations after the
\* database connection is made and before the App is built; the App is built,
\* and the server serves, only when that Migrate() returned nil, every unit of
\* the Registry then being recorded and applied; when it failed NewApp returns
\* no App.
AppStages == {"app_db", "app_migrate", "app_failed", "app_built", "serving"}

MigrationsGateStartup ==
    \A p \in ProcIds :
        LET m == main[p] IN
        /\ m.stage = "app_db" => op[p] = "none" /\ log[p] = <<>> /\ pc[p] = "idle"
        /\ m.stage = "app_migrate" =>
               op[p] = "migrate" /\ migrations[p] = RegisterMigrations
        /\ m.stage \in {"app_built", "serving"} =>
               /\ op[p] = "migrate" /\ pc[p] = "idle" /\ err[p] = NoErr
               /\ migrations[p] = RegisterMigrations
               /\ \A u \in Range(RegisterMigrations) : u \in Ids(records) /\ u \in schema
        /\ (m.stage \in AppStages /\ pc[p] = "idle" /\ err[p] # NoErr) =>
               m.stage \in {"app_migrate", "app_failed"}
        /\ m.stage = "app_failed" => op[p] = "none" \/ err[p] # NoErr

\* the server serves after a Migrate() of NewApp that found a record in the store
\* and applied a pending unit
MigrationsGateWitness ==
    \E p \in ProcIds :
        /\ main[p].stage = "serving"
        /\ Committed(p) # {}
        /\ start[p].records # {}

\* ---------------------------------------------------------------- C22
\* C22: Migrate() ensures the record table as its first step, with no
\* transaction open and before it reads the records or begins a unit's
\* transaction; the step leaves the records and the schema as they were; when
\* it fails Migrate() returns its error and no unit has been attempted.
RecordTableBootstrap ==
    \A p \in ProcIds :
        /\ pc[p] = "m_ensure" =>
               /\ op[p] = "migrate" /\ log[p] = <<>> /\ ~tx[p].open
               /\ appliedMap[p] = {} /\ idx[p] = 0
        /\ pc[p] = "m_find" =>
               /\ tableExists /\ log[p] = <<>> /\ ~tx[p].open
               /\ records = start[p].records /\ schema = start[p].schema
        /\ pc[p] \in {"m_loop", "m_begin", "m_forward", "m_create", "m_commit"} =>
               tableExists
        /\ (Returned(p, "migrate") /\ log[p] # <<>>) => tableExists
        /\ (Returned(p, "migrate") /\ err[p].kind = "automigrate") =>
               /\ log[p] = <<>> /\ ~tx[p].open
               /\ records = start[p].records /\ schema = start[p].schema

\* the table existed with records in it and the step was passed; the next
\* statement reads them
RecordTableWitness ==
    \E p \in ProcIds : pc[p] = "m_find" /\ records # {} /\ prev[p].op = "migrate"

\* ---------------------------------------------------------------- C23
\* C23: in one Migrate() over a Registry with unique ids, forward is invoked at
\* most once per unit and never for a unit that had a record when the call
\* started; up to the first failure it is invoked once for each unit that had
\* none, in registration order, wherever the applied units stand in the
\* Registry; nothing is begun after a failure.
UniqueIds(ms) == \A a, b \in 1..Len(ms) : a # b => ms[a] # ms[b]

FailureKinds ==
    {"begin_err", "forward_err", "create_err", "commit_err", "backward_err", "delete_err"}

ExactForwardCalls ==
    \A p \in ProcIds :
        (op[p] = "migrate" /\ UniqueIds(migrations[p])) =>
            LET F == LogIds(p, ForwardKinds)
                P == PendingOf(migrations[p], start[p].records) IN
            /\ UniqueIds(F)
            /\ UniqueIds(LogIds(p, {"begin", "begin_err"}))
            /\ \A k \in 1..Len(F) : F[k] \notin Ids(start[p].records)
            /\ IsPrefixSeq(F, P)
            /\ (pc[p] = "idle" /\ err[p] = NoErr) => F = P
            /\ (pc[p] = "idle" /\ err[p].kind \in {"forward", "create", "commit"}) =>
                   F = SubSeq(P, 1, Len(F)) /\ F[Len(F)] = err[p].id
            /\ \A a, b \in 1..Len(log[p]) :
                   (a < b /\ log[p][a].ev \in FailureKinds) =>
                       log[p][b] = Ev("rollback", log[p][a].id)

\* a Migrate() returned nil over a Registry whose first unit was pending and
\* whose second unit had its record: forward ran for the first alone
ExactForwardWitness ==
    \E p \in ProcIds :
        /\ Returned(p, "migrate") /\ err[p] = NoErr
        /\ Len(migrations[p]) = 2 /\ UniqueIds(migrations[p])
        /\ Ids(start[p].records) = {migrations[p][2]}
        /\ LogIds(p, ForwardKinds) = <<migrations[p][1]>>

\* ---------------------------------------------------------------- C24
\* C24: a Rollback(n), n >= 1, that returns nil when every recorded unit is in
\* the Registry has deleted min(n, number of records) records, those of the
\* units applied last, and no other; on an empty record table it changes nothing.
RollbackCount ==
    \A p \in ProcIds :
        (/\ Returned(p, "rollback") /\ err[p] = NoErr /\ arg[p] >= 1
         /\ Ids(start[p].records) \subseteq Range(migrations[p])) =>
            LET k == Min(arg[p], Cardinality(start[p].records))
                D == Ids(start[p].records) \ Ids(records) IN
            /\ records \subseteq start[p].records
            /\ Cardinality(D) = k
            /\ schema = start[p].schema \ D
            /\ D = Range(LastReversed(start[p].order, k))
            /\ start[p].records = {} => log[p] = <<>>

MigrateKinds == {"begin", "begin_err", "forward", "forward_err", "create", "create_err",
                 "commit", "commit_err", "rollback"}
RollbackKinds == {"skip", "begin", "begin_err", "backward", "backward_err", "delete",
                  "delete_err", "commit", "commit_err", "rollback"}

FrameConditions ==
    \A p \in ProcIds :
        /\ op[p] \in {"migrate", "rollback"} =>
               /\ migrations[p] = start[p].registry
               /\ \A r \in records : r.id \in Ids(start[p].records) => r \in start[p].records
        /\ op[p] = "migrate" =>
               /\ \A a \in 1..Len(log[p]) : log[p][a].ev \in MigrateKinds
               /\ tx[p].del = {} /\ tx[p].schemaDel = {}
               /\ start[p].records \subseteq records
               /\ start[p].schema \subseteq schema
               /\ \A r \in records : r.id \notin Range(migrations[p]) => r \in start[p].records
        /\ op[p] = "rollback" =>
               /\ \A a \in 1..Len(log[p]) : log[p][a].ev \in RollbackKinds
               /\ tx[p].ins = {} /\ tx[p].schemaAdd = {}
               /\ records \subseteq start[p].records
               /\ schema \subseteq start[p].schema
               /\ arg[p] >= 1 =>
                      LET k == Min(arg[p], Len(start[p].order))
                          recent == Range(LastReversed(start[p].order, k)) IN
                      \A r \in start[p].records : r.id \notin recent => r \in records

\* ---------------------------------------------------------------- C27
\* C27: when two Migrate() runs over the same Registry interleave on one store,
\* no id ever has two records, a unit's record and schema change go together,
\* no run is ever about to commit a forward change or a record the store
\* already holds, no unit is committed by both runs, and a run whose record
\* insert fails has rolled its transaction back and returned the error.
ConcurrentMigrateSafe ==
    /\ \A r1, r2 \in records : r1.id = r2.id => r1 = r2
    /\ \A u \in Units : u \in Ids(records) <=> u \in schema
    /\ \A p \in ConcIds :
        /\ pc[p] = "m_commit" =>
               /\ Ids(tx[p].ins) \cap Ids(records) = {}
               /\ tx[p].schemaAdd \cap schema = {}
        /\ \A q \in ConcIds \ {p} :
               /\ Ids(tx[p].ins) \cap Ids(tx[q].ins) = {}
               /\ Committed(p) \cap Committed(q) = {}
        /\ (Returned(p, "migrate") /\ err[p].kind = "create") =>
               /\ ~tx[p].open
               /\ Len(log[p]) >= 2
               /\ LastEvents(p, 2) = <<Ev("create_err", err[p].id), Ev("rollback", err[p].id)>>
               /\ err[p].id \notin Committed(p)

\* both runs read the applied set before either committed; one committed the
\* unit, the other ran its forward, failed on the insert and returned the error
ConcurrentMigrateWitness ==
    \E p \in ConcIds : \E q \in ConcIds \ {p} :
        /\ Returned(p, "migrate") /\ err[p].kind = "create"
        /\ op[q] = "migrate"
        /\ err[p].id \in Committed(q)
        /\ err[p].id \notin Ids(start[p].records) \cup Ids(start[q].records)

\* ---------------------------------------------------------------- C28
\* C28: with the Registry fixed, a Migrate() that returns nil after a
\* Rollback(k) that returned nil after a Migrate() that returned nil leaves the
\* record ids and the schema the first Migrate() left, and has invoked forward
\* for the units the Rollback(k) undid, once each, in registration order.
RoundTripRestores ==
    \A p \in ProcIds :
        (op[p] = "migrate" /\ prev[p].trip # {}) =>
            LET t == CHOOSE x \in prev[p].trip : TRUE
                D == t.ids \ Ids(start[p].records)
                U == SelectSeq(migrations[p], LAMBDA u : u \in D) IN
            /\ prev[p].op = "rollback"
            /\ Ids(start[p].records) \subseteq t.ids
            /\ start[p].schema = t.schema \ D
            /\ IsPrefixSeq(LogIds(p, ForwardKinds), U)
            /\ (pc[p] = "idle" /\ err[p] = NoErr) =>
                   /\ Ids(records) = t.ids
                   /\ schema = t.schema
                   /\ LogIds(p, {"forward"}) = U
                   /\ Range(U) = D /\ UniqueIds(U)

\* Migrate(), Rollback(2), Migrate() all returned nil and the last one applied
\* again the two units that were undone
RoundTripWitness ==
    \E p \in ProcIds :
        /\ Returned(p, "migrate") /\ err[p] = NoErr
        /\ prev[p].trip # {}
        /\ Len(LogIds(p, {"commit"})) = 2

\* ---------------------------------------------------------------- C29
\* C29: a Rollback(n) called while the record table does not exist does not
\* create it: it returns the error of reading the records, has invoked no
\* backward and opened no transaction, and the store is as the call found it;
\* the command-line tool then exits with code 1.
RollbackWithoutTable ==
    \A p \in ProcIds :
        (op[p] = "rollback" /\ ~start[p].table) =>
            /\ ~tableExists
            /\ pc[p] \in {"r_find", "idle"}
            /\ log[p] = <<>>
            /\ ~tx[p].open /\ tx[p] = NoTx
            /\ records = start[p].records /\ records = {}
            /\ schema = start[p].schema
            /\ pc[p] = "idle" => err[p] = Error("find", 0)
            /\ main[p].stage = "exited" => main[p].exit = {ExitFailure}

\* the command-line tool was run with -rollback against a store without the
\* record table, Rollback(n) has returned and the tool has exited with code 1
RollbackWithoutTableWitness ==
    \E p \in ProcIds :
        /\ op[p] = "rollback" /\ ~start[p].table
        /\ main[p].stage = "exited" /\ main[p].args.rollback
        /\ main[p].exit = {ExitFailure}
        /\ Returned(p, "rollback")

\* ---------------------------------------------------------------- counts n <= 0
\* The calls of Spec and, besides, Rollback(n) and -n <n> with a count that is
\* not positive: neither main nor Rollback looks at the sign of n.
NextCounts ==
    \/ Next
    \/ \E p \in ProcIds :
        \/ \E n \in NonPositive : RollbackCall(p, n)
        \/ \E a \in ArgsNonPositive : MainOpenOk(p, a)

SpecCounts == Init /\ [][NextCounts]_vars

\* ---------------------------------------------------------------- C30
\* C30: a Rollback(n) with n <= 0, called directly or through the command-line
\* flag -n, is accepted without validation, invokes no backward, commits no
\* undo and deletes no record.
RollbackNonPositive ==
    \A p \in ProcIds :
        (op[p] = "rollback" /\ arg[p] <= 0) =>
            /\ start[p].selected = <<>>
            /\ LogIds(p, {"backward", "backward_err"}) = <<>>
            /\ Committed(p) = {}
            /\ records = start[p].records
            /\ schema = start[p].schema

====
